---- MODULE Spec2Model ----
(***************************************************************************)
(* Voice prosody analyzer of the Empathy Meter (src/app.py):               *)
(* analyze_voice_features and the interpretation block of                  *)
(* recognize_speech.                                                       *)
(*                                                                         *)
(* Numbers are fixed point.  Frequencies returned by the pitch tracker are *)
(* whole Hz; a reported pitch and tempo are in 1/100 (two decimals), a     *)
(* reported energy in 10^-6, a reported jitter in 10^-4 and the unrounded  *)
(* jitter in 10^-6.                                                        *)
(***************************************************************************)
EXTENDS Integers, Sequences, FiniteSets, TLC

VARIABLES
    audio,           \* the AudioData handed to analyze_voice_features
    pc,              \* position in analyze_voice_features / recognize_speech
    fs,              \* temporary directory: file name -> file content
    tmp_name,        \* local tmp_name (0 while unassigned)
    y,               \* local y, sr: the decoded samples
    features,        \* local dict features
    selected,        \* local selected: [bound, val]
    jitter,          \* local jitter (unrounded), None while unassigned
    result,          \* value returned by analyze_voice_features
    interpretation,  \* local list interpretation of recognize_speech
    ran,             \* estimation steps entered so far in this call
    calls,           \* completed calls of this session: <<audio, result>>
    text,            \* local text of recognize_speech
    heard,           \* value returned by recognize_speech
    escaped,         \* exception that left a function uncaught
    listens,         \* recordings attempted by this invocation of recognize_speech
    analyses,        \* calls of analyze_voice_features by this invocation
    clicks,          \* clicks on "Start Recording" in this session
    env,             \* what surrounds analyze_emotion: input text, backend, LLM client
    ret,             \* value returned by analyze_emotion
    bound,           \* names empathy_page binds to the returned tuple
    mail,            \* value returned by analyze_email
    logged_in,       \* st.session_state.logged_in
    last_spoken,     \* st.session_state.last_spoken
    said,            \* arguments of the calls of speak in this session
    spoken,          \* utterances speak has emitted in this session
    page,            \* st.session_state.page
    username,        \* st.session_state.username
    token,           \* st.session_state.token
    view,            \* the page the current run of the script renders
    resp,            \* the last answer the frontend got from the backend
    users,           \* table users of the backend
    scores,          \* table scores
    emails,          \* table emails
    reqs,            \* signup requests the backend is serving
    reply,           \* the backend's answer to the last finished request
    log,             \* requests the backend has served so far
    now              \* the backend's clock

voiceVars == <<audio, pc, fs, tmp_name, y, features, selected, jitter, result,
               interpretation, ran, calls>>

voiceVars_but_pc == <<audio, fs, tmp_name, y, features, selected, jitter, result,
                      interpretation, ran, calls>>

speechVars == <<text, heard, escaped, listens, analyses, clicks>>

emotionVars == <<env, ret, bound, mail>>

speakVars == <<logged_in, last_spoken, said, spoken>>

sessionVars == <<page, username, token, view, resp>>

backendVars == <<users, scores, emails, reqs, reply, log, now>>

pageVars == <<emotionVars, speakVars, sessionVars, backendVars>>

vars == <<voiceVars, speechVars, pageVars>>

-----------------------------------------------------------------------------
(* Bounds *)

MaxFrames == 3
MaxCalls == 3
MaxClicks == 2

-----------------------------------------------------------------------------
(* Python values *)

None == [tag |-> "None"]
Num(n) == [tag |-> "float", val |-> n]
Str(s) == [tag |-> "str", str |-> s]

IsNum(v) == v.tag = "float"

\* truth value of a Python object in `if pitch:` / `if tempo:`
Truthy(v) ==
    CASE v.tag = "None" -> FALSE
      [] v.tag = "float" -> v.val # 0
      [] v.tag = "str" -> v.str # ""

EmptyDict == [k \in {} |-> None]

SetItem(d, k, v) == [x \in (DOMAIN d) \cup {k} |-> IF x = k THEN v ELSE d[x]]

Get(d, k) == IF k \in DOMAIN d THEN d[k] ELSE None

\* round(x, ndigits) on a non-negative fixed-point number: q finer units make one
Round(x, q) == (x + (q \div 2)) \div q

-----------------------------------------------------------------------------
(* Report keys and values *)

KPitch == "Pitch (Hz)"
KTempo == "Tempo (BPM)"
KEnergy == "Energy"
KJitter == "Jitter"
KTremble == "Voice Tremble"
KError == "error"

FeatureKeys == {KPitch, KTempo, KEnergy, KJitter, KTremble}

TrembleYes == "Yes (Possible Anxiety)"
TrembleNo == "No"
TrembleNA == "N/A"

\* jitter > 0.18, in 10^-6
TrembleThreshold == 180000

-----------------------------------------------------------------------------
(* Inputs: what the audio libraries return for a clip *)

\* Candidate frequencies (Hz) the pitch tracker reports at spectral peaks.
PeakFreqs == <<139, 140, 189, 220, 250, 272>>

\* Peak magnitudes.
MagLevels == <<1, 2>>

\* One cell of the (pitches, magnitudes) arrays of librosa.piptrack: both are
\* zero away from a peak and both positive at a peak.
NoPeak == [f |-> 0, m |-> 0]

NumCells == 1 + Len(PeakFreqs) * Len(MagLevels)

CellAt(i) ==
    IF i = 1 THEN NoPeak
    ELSE [f |-> PeakFreqs[((i - 2) \div Len(MagLevels)) + 1],
          m |-> MagLevels[((i - 2) % Len(MagLevels)) + 1]]

\* The arrays as a list of cells.  np.median, np.mean and np.std do not depend
\* on the order of the cells, so each multiset of cells is listed once.
CellLists ==
    UNION {{[i \in 1..n |-> CellAt(ix[i])] :
               ix \in {s \in [1..n -> 1..NumCells] :
                          \A i \in 1..n : i = 1 \/ s[i - 1] <= s[i]}} :
           n \in 0..MaxFrames}

\* Unrounded tempo of librosa.beat.beat_track, in 1/1000 BPM (0: no onset found).
TempoValues == {0, 79994, 80000, 150000, 160000}

\* Unrounded mean RMS, in 10^-7.
EnergyValues == {314159}

Returns(v) == [exc |-> FALSE, val |-> v]
Raises == [exc |-> TRUE, val |-> 0]

\* A decodable clip: the samples stand for what each library call makes of them.
\*   pitchExc  "piptrack": librosa.piptrack raises; "median": a later statement
\*             of the pitch step raises; "none": the step completes
\*   jitterExc the jitter computation raises
Samples ==
    [frames : CellLists,
     pitchExc : {"none", "piptrack", "median"},
     tempo : {Raises} \cup {Returns(v) : v \in TempoValues},
     energy : {Raises} \cup {Returns(v) : v \in EnergyValues},
     jitterExc : BOOLEAN]

NoSamples ==
    [frames |-> <<>>, pitchExc |-> "none", tempo |-> Raises, energy |-> Raises,
     jitterExc |-> FALSE]

\* AudioData: decode is "ok", "wav" (get_wav_data raises) or "load"
\* (librosa.load raises on the written file).
AudioClips ==
    {[decode |-> "ok", samples |-> s] : s \in Samples}
        \cup {[decode |-> d, samples |-> NoSamples] : d \in {"wav", "load"}}

-----------------------------------------------------------------------------
(* numpy helpers *)

RECURSIVE SumSeq(_)
SumSeq(s) == IF s = <<>> THEN 0 ELSE Head(s) + SumSeq(Tail(s))

RECURSIVE SumSq(_)
SumSq(s) == IF s = <<>> THEN 0 ELSE Head(s) * Head(s) + SumSq(Tail(s))

\* twice np.median of a non-empty list of integers
Median2(s) ==
    LET sorted == SortSeq(s, LAMBDA a, b : a < b)
        n == Len(s)
    IN  IF n % 2 = 1 THEN 2 * sorted[(n + 1) \div 2]
        ELSE sorted[n \div 2] + sorted[(n \div 2) + 1]

RECURSIVE ISqrtIn(_, _, _)
ISqrtIn(n, lo, hi) ==
    IF lo = hi THEN lo
    ELSE LET mid == (lo + hi + 1) \div 2
         IN  IF mid * mid <= n THEN ISqrtIn(n, mid, hi) ELSE ISqrtIn(n, lo, mid - 1)

\* floor of the square root
ISqrt(n) == ISqrtIn(n, 0, IF n < 46340 THEN n ELSE 46340)

\* k further decimal digits of a square root, digit by digit
RECURSIVE SqrtDigits(_, _, _)
SqrtDigits(root, rem, k) ==
    IF k = 0 THEN root
    ELSE LET r == rem * 100
             d == CHOOSE d \in 0..9 :
                     /\ (20 * root + d) * d <= r
                     /\ d = 9 \/ (20 * root + d + 1) * (d + 1) > r
         IN  SqrtDigits(10 * root + d, r - (20 * root + d) * d, k - 1)

\* floor(sqrt(n) * 10^4)
Sqrt4(n) == LET r == ISqrt(n) IN SqrtDigits(r, n - r * r, 4)

\* np.std(s) / np.mean(s) in 10^-6, for a list of positive integers:
\* sqrt(n * sum(x^2) - sum(x)^2) / sum(x), truncated (within 10^-6 of the
\* quotient, the precision of the float32 arrays)
RelStd6(s) ==
    LET d == Len(s) * SumSq(s) - SumSeq(s) * SumSeq(s)
    IN  (Sqrt4(d) * 100) \div SumSeq(s)

-----------------------------------------------------------------------------
(* analyze_voice_features: the estimation steps *)

Unbound == [bound |-> FALSE, val |-> <<>>]
Bound(s) == [bound |-> TRUE, val |-> s]

\* twice the magnitude threshold: median of the non-zero magnitudes, else 0.0
Threshold2(cells) ==
    LET mags == [i \in 1..Len(cells) |-> cells[i].m]
        nonzero == SelectSeq(mags, LAMBDA m : m > 0)
    IN  IF nonzero # <<>> THEN Median2(nonzero) ELSE 0

\* variant: only magnitudes above the threshold are kept
SelectCandidates_StrictlyAbove(cells) ==
    LET thr2 == Threshold2(cells)
        kept == SelectSeq(cells, LAMBDA c : 2 * c.m > thr2)
        positive == SelectSeq(kept, LAMBDA c : c.f > 0)
    IN  [i \in 1..Len(positive) |-> positive[i].f]

\* selected = pitches[magnitudes >= threshold]; selected = selected[selected > 0]
SelectCandidates(cells) ==
    LET thr2 == Threshold2(cells)
        kept == SelectSeq(cells, LAMBDA c : 2 * c.m >= thr2)
        positive == SelectSeq(kept, LAMBDA c : c.f > 0)
    IN  [i \in 1..Len(positive) |-> positive[i].f]

\* round(float(np.median(selected)), 2), in 1/100 Hz
PitchMedian(sel) == Round(Median2(sel) * 500, 10)

\* variant: a pitch of 0.0 stands for "no candidate"
PitchOut_ZeroDefault(smp) ==
    IF smp.pitchExc = "piptrack"
    THEN [pitch |-> None, selected |-> Unbound]
    ELSE LET sel == SelectCandidates(smp.frames)
         IN  IF Len(sel) > 0
             THEN IF smp.pitchExc = "median"
                  THEN [pitch |-> None, selected |-> Bound(sel)]
                  ELSE [pitch |-> Num(PitchMedian(sel)), selected |-> Bound(sel)]
             ELSE [pitch |-> Num(0), selected |-> Bound(sel)]

\* an exception is raised inside the pitch step: by librosa.piptrack, or at
\* line 271, which runs when a candidate was selected
PitchRaises(smp) ==
    \/ smp.pitchExc = "piptrack"
    \/ smp.pitchExc = "median" /\ Len(SelectCandidates(smp.frames)) > 0

\* the pitch step: the value stored under "Pitch (Hz)" and the local selected
PitchOut(smp) ==
    IF smp.pitchExc = "piptrack"
    THEN [pitch |-> None, selected |-> Unbound]
    ELSE LET sel == SelectCandidates(smp.frames)
         IN  IF Len(sel) > 0
             THEN IF smp.pitchExc = "median"
                  THEN [pitch |-> None, selected |-> Bound(sel)]
                  ELSE [pitch |-> Num(PitchMedian(sel)), selected |-> Bound(sel)]
             ELSE [pitch |-> None, selected |-> Bound(sel)]

\* variant: the tempo is estimated inside the try block of the pitch step
TempoOut_InPitchTry(smp) ==
    IF smp.tempo.exc \/ smp.pitchExc = "piptrack" THEN None
    ELSE Num(Round(smp.tempo.val, 10))

\* the tempo step: round(float(tempo), 2), in 1/100 BPM
TempoOut(smp) ==
    IF smp.tempo.exc THEN None ELSE Num(Round(smp.tempo.val, 10))

\* the energy step: round(float(np.mean(rms)), 6), in 10^-6
EnergyOut(smp) ==
    IF smp.energy.exc THEN None ELSE Num(Round(smp.energy.val, 10))

\* variant: the tremble decided on the rounded jitter
TrembleOf_Rounded(raw) ==
    IF Round(raw, 100) * 100 > TrembleThreshold THEN Str(TrembleYes)
    ELSE Str(TrembleNo)

\* "Yes (Possible Anxiety)" if jitter > 0.18 else "No", on the unrounded jitter
TrembleOf(raw) == IF raw > TrembleThreshold THEN Str(TrembleYes) ELSE Str(TrembleNo)

JitterNA == [local |-> None, jitter |-> None, tremble |-> Str(TrembleNA)]

\* variant: the pitch is not consulted
JitterApplies_NoPitchGuard(feats, sel) ==
    /\ sel.bound
    /\ Len(sel.val) > 1

\* the guards of the jitter step: pitch present, selected bound, two candidates
JitterApplies(feats, sel) ==
    /\ Get(feats, KPitch) # None
    /\ sel.bound
    /\ Len(sel.val) > 1

\* the jitter step: the local jitter and the values stored under "Jitter" and
\* "Voice Tremble"
JitterOut(feats, sel, smp) ==
    IF JitterApplies(feats, sel)
    THEN IF smp.jitterExc
         THEN JitterNA
         ELSE LET raw == RelStd6(sel.val)
              IN  [local |-> Num(raw), jitter |-> Num(Round(raw, 100)),
                   tremble |-> TrembleOf(raw)]
    ELSE JitterNA

\* variant: the not-applicable branches store the jitter only
JitterStore_NoTremble(feats, j) ==
    IF j.jitter = None THEN SetItem(feats, KJitter, j.jitter)
    ELSE SetItem(SetItem(feats, KJitter, j.jitter), KTremble, j.tremble)

\* features["Jitter"] = ...; features["Voice Tremble"] = ...
JitterStore(feats, j) ==
    SetItem(SetItem(feats, KJitter, j.jitter), KTremble, j.tremble)

\* the report of a decoded clip: the four steps in order
Report(smp) ==
    LET p == PitchOut(smp)
        f1 == SetItem(EmptyDict, KPitch, p.pitch)
        f2 == SetItem(f1, KTempo, TempoOut(smp))
        f3 == SetItem(f2, KEnergy, EnergyOut(smp))
        j == JitterOut(f3, p.selected, smp)
    IN  JitterStore(f3, j)

-----------------------------------------------------------------------------
(* recognize_speech: the interpretation of a report *)

\* (the em dash of the source is written -- here)
LowPitch == "Low pitch -- may sound calm/serious."
HighPitch == "High pitch -- may indicate stress or excitement."
MediumPitch == "Medium pitch -- neutral."
SlowSpeech == "Slow speech -- may indicate sadness or tiredness."
FastSpeech == "Fast speech -- may indicate excitement or nervousness."
ModerateTempo == "Moderate tempo."
TrembleDetected == "Tremble detected -- possible anxiety/hesitation."
NoTremble == "No tremble detected."

PitchMessages == {LowPitch, HighPitch, MediumPitch}
TempoMessages == {SlowSpeech, FastSpeech, ModerateTempo}
TrembleMessages == {TrembleDetected, NoTremble}

\* cut points, in 1/100 Hz and 1/100 BPM
PitchLow == 14000
PitchHigh == 22000
TempoSlow == 8000
TempoFast == 15000

\* variant: the upper cut point taken inclusive
PitchLines_HighInclusive(pitch) ==
    IF Truthy(pitch)
    THEN IF pitch.val < PitchLow THEN <<LowPitch>>
         ELSE IF pitch.val >= PitchHigh THEN <<HighPitch>>
         ELSE <<MediumPitch>>
    ELSE <<>>

\* if pitch: ... (the lines appended for the pitch)
PitchLines(pitch) ==
    IF Truthy(pitch)
    THEN IF pitch.val < PitchLow THEN <<LowPitch>>
         ELSE IF pitch.val > PitchHigh THEN <<HighPitch>>
         ELSE <<MediumPitch>>
    ELSE <<>>

\* variant: `if tempo is not None:`
TempoLines_IsNotNone(tempo) ==
    IF tempo # None
    THEN IF tempo.val < TempoSlow THEN <<SlowSpeech>>
         ELSE IF tempo.val > TempoFast THEN <<FastSpeech>>
         ELSE <<ModerateTempo>>
    ELSE <<>>

\* if tempo: ...
TempoLines(tempo) ==
    IF Truthy(tempo)
    THEN IF tempo.val < TempoSlow THEN <<SlowSpeech>>
         ELSE IF tempo.val > TempoFast THEN <<FastSpeech>>
         ELSE <<ModerateTempo>>
    ELSE <<>>

\* variant: the Yes value compared without its suffix
TrembleLines_ShortYes(tremble) ==
    IF tremble = Str("Yes") THEN <<TrembleDetected>>
    ELSE IF tremble = Str("No") THEN <<NoTremble>>
    ELSE <<>>

\* if tremble == "Yes (Possible Anxiety)": ... elif tremble == "No": ...
TrembleLines(tremble) ==
    IF tremble = Str("Yes (Possible Anxiety)") THEN <<TrembleDetected>>
    ELSE IF tremble = Str("No") THEN <<NoTremble>>
    ELSE <<>>

\* variant: the tempo interpreted before the pitch
Interpretation_TempoFirst(feats) ==
    TempoLines(Get(feats, KTempo))
        \o PitchLines(Get(feats, KPitch))
        \o TrembleLines(Get(feats, KTremble))

\* the list interpretation built from a report
Interpretation(feats) ==
    PitchLines(Get(feats, KPitch))
        \o TempoLines(Get(feats, KTempo))
        \o TrembleLines(Get(feats, KTremble))

-----------------------------------------------------------------------------
(* The temporary file *)

EmptyFile == [decode |-> "empty", samples |-> NoSamples]

\* tempfile.NamedTemporaryFile picks a name no file of the directory has
NewTmpName(files) == Cardinality(DOMAIN files) + 1

WriteFile(files, name, data) ==
    [n \in (DOMAIN files) \cup {name} |-> IF n = name THEN data ELSE files[n]]

\* variant: a fixed file name
LoadPath_Fixed(name) == 1

\* the path handed to librosa.load
LoadPath(name) == name

\* variant: the error is stored in a report of unavailable features
ErrorDict_InReport(kind) == SetItem(Report(NoSamples), KError, Str(kind))

\* {"error": str(e)}
ErrorDict(kind) == SetItem(EmptyDict, KError, Str(kind))

-----------------------------------------------------------------------------
(* Exceptions *)

\* the classes of the exceptions the library calls raise, all of them
\* subclasses of Exception
ExceptionClasses ==
    {"OSError", "WaitTimeoutError", "UnknownValueError", "RequestError",
     "ValueError", "LibsndfileError", "ParameterError", "MemoryError",
     "FloatingPointError", "ConnectionError", "APIConnectionError"}

\* the class raised at a place of the code
RaisedBy(site) ==
    CASE site = "wav" -> "ValueError"
      [] site = "load" -> "LibsndfileError"
      [] site = "piptrack" -> "ParameterError"
      [] site = "median" -> "MemoryError"
      [] site = "tempo" -> "ParameterError"
      [] site = "energy" -> "ParameterError"
      [] site = "jitter" -> "FloatingPointError"

NoException == "none"

\* variant: `except (sr.UnknownValueError, sr.RequestError, ValueError):`
Handles_Narrow(cls) == cls \in {"UnknownValueError", "RequestError", "ValueError"}

\* `except Exception:` catches the class
Handles(cls) == cls \in ExceptionClasses

-----------------------------------------------------------------------------
(* Clips of a session *)

\* the clips of a session
SessionClips ==
    {[decode |-> "ok",
      samples |-> [frames |-> fr, pitchExc |-> "none", tempo |-> Returns(160000),
                   energy |-> Returns(314159), jitterExc |-> FALSE]] :
        fr \in {<<[f |-> 139, m |-> 1]>>,
                 <<[f |-> 189, m |-> 1], [f |-> 272, m |-> 1]>>}}
        \cup {[decode |-> d, samples |-> NoSamples] : d \in {"wav", "load"}}

\* clips on which an estimation step raises
FaultyClips ==
    {[decode |-> "ok",
      samples |-> [frames |-> <<[f |-> 189, m |-> 1], [f |-> 272, m |-> 1]>>,
                   pitchExc |-> p, tempo |-> t, energy |-> Raises,
                   jitterExc |-> TRUE]] :
        p \in {"none", "piptrack", "median"}, t \in {Raises, Returns(0)}}

\* no clip recorded yet
NoAudio == [decode |-> "none", samples |-> NoSamples]

\* recognize_speech has not returned
NotReturned == [tag |-> "unset"]

-----------------------------------------------------------------------------
(* The page around the analyzers *)

\* analyze_emotion has no input yet
NoEnv == [text |-> None]

\* empathy_page has not bound the six names yet
NoBindings == [k \in {} |-> None]

\* a key st.session_state does not hold
Absent == [tag |-> "absent"]

\* no request has been answered
NoRequests == <<>>

\* the backend with empty tables
BackendIdle ==
    /\ users = <<>>
    /\ scores = <<>>
    /\ emails = <<>>
    /\ reqs = NoRequests
    /\ reply = None
    /\ log = <<>>
    /\ now = 0

\* the session of a user on the empathy page
SessionIdle ==
    /\ page = "login"
    /\ username = Str("asha")
    /\ token = Str("dummy_token_for_demo")
    /\ view = "empathy"
    /\ resp = None

\* the page while only the voice analyzer runs: logged in, nothing spoken
PageIdle ==
    /\ SessionIdle
    /\ BackendIdle
    /\ env = NoEnv
    /\ ret = None
    /\ bound = NoBindings
    /\ mail = None
    /\ logged_in = TRUE
    /\ last_spoken = ""
    /\ said = <<>>
    /\ spoken = <<>>

-----------------------------------------------------------------------------
(* Actions *)

NoLocals ==
    /\ tmp_name' = 0
    /\ y' = NoSamples
    /\ features' = EmptyDict
    /\ selected' = Unbound
    /\ jitter' = None
    /\ result' = None
    /\ interpretation' = <<>>
    /\ ran' = {}

\* the state at the call of analyze_voice_features(audio), audio among clips
InitWith(clips) ==
    /\ audio \in clips
    /\ pc = "start"
    /\ fs = [n \in {} |-> EmptyFile]
    /\ tmp_name = 0
    /\ y = NoSamples
    /\ features = EmptyDict
    /\ selected = Unbound
    /\ jitter = None
    /\ result = None
    /\ interpretation = <<>>
    /\ ran = {}
    /\ calls = <<>>
    /\ text = None
    /\ heard = NotReturned
    /\ escaped = NoException
    /\ listens = 1
    /\ analyses = 0
    /\ clicks = 1
    /\ PageIdle

Init == InitWith(AudioClips)

\* return <value> of analyze_voice_features
ReturnValue(v) ==
    /\ result' = v
    /\ pc' = "returned"
    /\ calls' = Append(calls, <<audio, v>>)

\* an exception of class cls leaves the function
Escape(cls) ==
    /\ escaped' = cls
    /\ pc' = "raised"

\* except Exception as e: return {"error": str(e)}  (lines 313-314)
DecodeError(site) ==
    IF Handles(RaisedBy(site))
    THEN ReturnValue(ErrorDict(site)) /\ UNCHANGED escaped
    ELSE Escape(RaisedBy(site)) /\ UNCHANGED <<result, calls>>

\* lines 250-261: write the clip to a temporary file, load it back
Decode ==
    /\ pc = "start"
    /\ analyses' = analyses + 1
    /\ LET name == NewTmpName(fs)
       IN  IF audio.decode = "wav"
           THEN /\ fs' = WriteFile(fs, name, EmptyFile)
                /\ DecodeError("wav")
                /\ UNCHANGED <<tmp_name, y, features>>
           ELSE LET files == WriteFile(fs, name, audio)
                    loaded == files[LoadPath(name)]
                IN  /\ fs' = files
                    /\ tmp_name' = name
                    /\ IF loaded.decode = "ok"
                       THEN /\ y' = loaded.samples
                            /\ features' = EmptyDict
                            /\ pc' = "decoded"
                            /\ UNCHANGED <<result, calls, escaped>>
                       ELSE /\ DecodeError("load")
                            /\ UNCHANGED <<y, features>>
    /\ UNCHANGED <<audio, selected, jitter, interpretation, ran>>
    /\ UNCHANGED <<text, heard, listens, clicks>>
    /\ UNCHANGED pageVars

\* one estimation step: its try block, and its `except Exception:` when the
\* block raises at site
Step(name, raises, site, done, body) ==
    /\ ran' = ran \cup {name}
    /\ IF raises /\ ~Handles(RaisedBy(site))
       THEN Escape(RaisedBy(site)) /\ UNCHANGED <<features, selected, jitter>>
       ELSE body /\ pc' = done /\ UNCHANGED escaped
    /\ UNCHANGED <<audio, fs, tmp_name, y, result, interpretation, calls>>
    /\ UNCHANGED <<text, heard, listens, analyses, clicks>>
    /\ UNCHANGED pageVars

\* lines 264-276
PitchStep ==
    /\ pc = "decoded"
    /\ Step("pitch", PitchRaises(y), y.pitchExc, "pitch_done",
            LET p == PitchOut(y)
            IN  /\ features' = SetItem(features, KPitch, p.pitch)
                /\ selected' = p.selected
                /\ UNCHANGED jitter)

\* lines 279-283
TempoStep ==
    /\ pc = "pitch_done"
    /\ Step("tempo", y.tempo.exc, "tempo", "tempo_done",
            /\ features' = SetItem(features, KTempo, TempoOut(y))
            /\ UNCHANGED <<selected, jitter>>)

\* lines 286-290
EnergyStep ==
    /\ pc = "tempo_done"
    /\ Step("energy", y.energy.exc, "energy", "energy_done",
            /\ features' = SetItem(features, KEnergy, EnergyOut(y))
            /\ UNCHANGED <<selected, jitter>>)

\* lines 293-309
JitterStep ==
    /\ pc = "energy_done"
    /\ Step("jitter", y.jitterExc /\ JitterApplies(features, selected), "jitter",
            "jitter_done",
            LET j == JitterOut(features, selected, y)
            IN  /\ jitter' = j.local
                /\ features' = JitterStore(features, j)
                /\ UNCHANGED selected)

\* line 311
Return ==
    /\ pc = "jitter_done"
    /\ ReturnValue(features)
    /\ UNCHANGED <<audio, fs, tmp_name, y, features, selected, jitter,
                   interpretation, ran>>
    /\ UNCHANGED speechVars
    /\ UNCHANGED pageVars

\* recognize_speech, lines 333-371: show the report and interpret it
Interpret ==
    /\ pc = "returned"
    /\ interpretation' =
           IF KError \in DOMAIN result THEN <<>> ELSE Interpretation(result)
    /\ pc' = "interpreted"
    /\ UNCHANGED <<audio, fs, tmp_name, y, features, selected, jitter, result,
                   ran, calls>>
    /\ UNCHANGED speechVars
    /\ UNCHANGED pageVars

Next ==
    \/ Decode
    \/ PitchStep
    \/ TempoStep
    \/ EnergyStep
    \/ JitterStep
    \/ Return
    \/ Interpret

Spec == Init /\ [][Next]_vars

-----------------------------------------------------------------------------
(* A session: the user records again (empathy_page, "Start Recording") *)

InitSession == InitWith(SessionClips)

\* lines 786-788: the next click calls recognize_speech again
NewCall ==
    /\ pc = "interpreted"
    /\ Len(calls) < MaxCalls
    /\ audio' \in SessionClips
    /\ pc' = "start"
    /\ NoLocals
    /\ text' = None
    /\ heard' = NotReturned
    /\ listens' = 1
    /\ analyses' = 0
    /\ clicks' = clicks + 1
    /\ UNCHANGED <<fs, calls, escaped>>
    /\ UNCHANGED pageVars

NextSession ==
    \/ Next
    \/ NewCall

SpecSession == InitSession /\ [][NextSession]_vars

(* recognize_speech *)

\* the clips a recording can capture
SpeechClips == SessionClips \cup FaultyClips

\* what recognize_google makes of a clip
Transcripts == {"i feel fine"}

\* variant: listening is tried again after a failure
OnListenError_Retry == "rs_start"

\* lines 374-376: a failure of the microphone or of listening ends the call
OnListenError == "rs_done"

\* variant: a failed transcription skips the voice analysis
OnTranscribeError_SkipAnalysis == "interpreted"

\* lines 329-333: after a failed transcription the voice analysis is called
OnTranscribeError == "start"

InitSpeech ==
    /\ audio = NoAudio
    /\ pc = "rs_start"
    /\ fs = [n \in {} |-> EmptyFile]
    /\ tmp_name = 0
    /\ y = NoSamples
    /\ features = EmptyDict
    /\ selected = Unbound
    /\ jitter = None
    /\ result = None
    /\ interpretation = <<>>
    /\ ran = {}
    /\ calls = <<>>
    /\ text = None
    /\ heard = NotReturned
    /\ escaped = NoException
    /\ listens = 0
    /\ analyses = 0
    /\ clicks = 1
    /\ PageIdle

\* lines 321-325: open the microphone and listen; the outer handler (374-376)
\* returns None
Listen ==
    /\ pc = "rs_start"
    /\ listens' = listens + 1
    /\ \/ /\ audio' \in SpeechClips
          /\ pc' = "rs_heard"
          /\ UNCHANGED <<heard, escaped>>
       \/ \E cls \in {"OSError", "WaitTimeoutError"} :
             /\ IF Handles(cls)
                THEN heard' = None /\ pc' = OnListenError /\ UNCHANGED escaped
                ELSE Escape(cls) /\ UNCHANGED heard
             /\ UNCHANGED audio
    /\ UNCHANGED <<fs, tmp_name, y, features, selected, jitter, result,
                   interpretation, ran, calls>>
    /\ UNCHANGED <<text, analyses, clicks>>
    /\ UNCHANGED pageVars

\* lines 327-330: text = r.recognize_google(audio), None when it raises
Transcribe ==
    /\ pc = "rs_heard"
    /\ \/ \E t \in Transcripts :
             text' = Str(t) /\ pc' = "start" /\ UNCHANGED escaped
       \/ \E cls \in {"UnknownValueError", "RequestError"} :
             IF Handles(cls)
             THEN text' = None /\ pc' = OnTranscribeError /\ UNCHANGED escaped
             ELSE Escape(cls) /\ UNCHANGED text
    /\ UNCHANGED voiceVars_but_pc
    /\ UNCHANGED <<heard, listens, analyses, clicks>>
    /\ UNCHANGED pageVars

\* line 373: return text
ReturnText ==
    /\ pc = "interpreted"
    /\ heard' = text
    /\ pc' = "rs_done"
    /\ UNCHANGED voiceVars_but_pc
    /\ UNCHANGED <<text, escaped, listens, analyses, clicks>>
    /\ UNCHANGED pageVars

\* lines 786-788: a click on "Start Recording" calls recognize_speech
Click ==
    /\ pc = "rs_done"
    /\ clicks < MaxClicks
    /\ clicks' = clicks + 1
    /\ pc' = "rs_start"
    /\ audio' = NoAudio
    /\ NoLocals
    /\ text' = None
    /\ heard' = NotReturned
    /\ listens' = 0
    /\ analyses' = 0
    /\ UNCHANGED <<fs, calls, escaped>>
    /\ UNCHANGED pageVars

NextSpeech ==
    \/ Listen
    \/ Transcribe
    \/ Next
    \/ ReturnText
    \/ Click

SpecSpeech == InitSpeech /\ [][NextSpeech]_vars

-----------------------------------------------------------------------------
(* Python strings *)

IsSpace(c) == c \in {" ", "\n", "\t"}

\* str.strip()
RECURSIVE LStrip(_)
LStrip(s) ==
    IF s # "" /\ IsSpace(SubSeq(s, 1, 1)) THEN LStrip(SubSeq(s, 2, Len(s))) ELSE s

RECURSIVE RStrip(_)
RStrip(s) ==
    IF s # "" /\ IsSpace(SubSeq(s, Len(s), Len(s)))
    THEN RStrip(SubSeq(s, 1, Len(s) - 1))
    ELSE s

Strip(s) == RStrip(LStrip(s))

LowerChar(c) ==
    CASE c = "A" -> "a" [] c = "B" -> "b" [] c = "C" -> "c" [] c = "D" -> "d"
      [] c = "E" -> "e" [] c = "F" -> "f" [] c = "G" -> "g" [] c = "H" -> "h"
      [] c = "I" -> "i" [] c = "J" -> "j" [] c = "K" -> "k" [] c = "L" -> "l"
      [] c = "M" -> "m" [] c = "N" -> "n" [] c = "O" -> "o" [] c = "P" -> "p"
      [] c = "Q" -> "q" [] c = "R" -> "r" [] c = "S" -> "s" [] c = "T" -> "t"
      [] c = "U" -> "u" [] c = "V" -> "v" [] c = "W" -> "w" [] c = "X" -> "x"
      [] c = "Y" -> "y" [] c = "Z" -> "z" [] OTHER -> c

\* str.lower()
RECURSIVE Lower(_)
Lower(s) ==
    IF s = "" THEN "" ELSE LowerChar(SubSeq(s, 1, 1)) \o Lower(SubSeq(s, 2, Len(s)))

\* position of the first occurrence of k in s, 0 when there is none
Find(s, k) ==
    LET hits == {i \in 1..(Len(s) - Len(k) + 1) : SubSeq(s, i, i + Len(k) - 1) = k}
    IN  IF hits = {} THEN 0 ELSE CHOOSE i \in hits : \A j \in hits : i <= j

\* `k in s`
Contains(s, k) == Find(s, k) # 0

\* s.split(k)[1] for a string s that contains k
SplitSecond(s, k) ==
    LET rest == SubSeq(s, Find(s, k) + Len(k), Len(s))
    IN  IF Contains(rest, k) THEN SubSeq(rest, 1, Find(rest, k) - 1) ELSE rest

\* s.startswith(k)
StartsWith(s, k) == Len(s) >= Len(k) /\ SubSeq(s, 1, Len(k)) = k

\* str(x) of a float given in 1/100
FloatStr(n) ==
    LET whole == n \div 100
        frac == n % 100
    IN  ToString(whole) \o "." \o
           (IF frac % 10 = 0 THEN ToString(frac \div 10)
            ELSE IF frac < 10 THEN "0" \o ToString(frac)
            ELSE ToString(frac))

-----------------------------------------------------------------------------
(* EMOJI_MAP and extract_emotion *)

\* the keys of EMOJI_MAP in insertion order
EmojiKeys ==
    <<"Happy", "Happiness", "Joy", "Sad", "Melancholy", "Shock", "Angry", "Anger",
      "Fear", "Surprise", "Frustration", "Anxiety", "Affection", "Love", "Neutral">>

\* EMOJI_MAP[k]; an emoji is written by its short name between colons
EMOJI_MAP(k) ==
    CASE k \in {"Happy", "Happiness", "Joy"} -> ":smiley:"
      [] k \in {"Sad", "Melancholy"} -> ":cry:"
      [] k = "Shock" -> ":open_mouth:"
      [] k \in {"Angry", "Anger"} -> ":rage:"
      [] k = "Fear" -> ":fearful:"
      [] k = "Surprise" -> ":hugging:"
      [] k = "Frustration" -> ":confounded:"
      [] k = "Anxiety" -> ":cold_sweat:"
      [] k = "Affection" -> ":smiling_face_with_hearts:"
      [] k = "Love" -> ":heart:"
      [] k = "Neutral" -> ":neutral_face:"

EmojiKeySet == {EmojiKeys[i] : i \in DOMAIN EmojiKeys}

\* EMOJI_MAP.get(k, default)
EmojiGet(k, default) == IF k \in EmojiKeySet THEN EMOJI_MAP(k) ELSE default

SlightSmile == ":slightly_smiling_face:"
Worried == ":worried:"
NeutralFace == ":neutral_face:"

\* first key of EMOJI_MAP whose lower case occurs in s, 0 when none does
FirstKeyIn(s) ==
    LET hits == {i \in DOMAIN EmojiKeys : Contains(s, Lower(EmojiKeys[i]))}
    IN  IF hits = {} THEN 0 ELSE CHOOSE i \in hits : \A j \in hits : i <= j

extract_emotion(ai_text) ==
    LET low == Lower(ai_text)
        possible == SplitSecond(low, "primary emotion")
    IN  IF Contains(low, "primary emotion") /\ FirstKeyIn(possible) # 0
        THEN EmojiKeys[FirstKeyIn(possible)]
        ELSE IF FirstKeyIn(low) # 0 THEN EmojiKeys[FirstKeyIn(low)]
        ELSE "Neutral"

-----------------------------------------------------------------------------
(* What surrounds analyze_emotion and analyze_email *)

\* texts the user submits: polarity is what TextBlob returns for the text in
\* 1/100 (even values, so that the score has no rounding tie), predicted is
\* what the trained classifier of ml_model returns for it
InputTexts ==
    {[text |-> "I am so happy today", polarity |-> 80, predicted |-> "joy"],
     [text |-> "It went well enough", polarity |-> 60, predicted |-> "joy"],
     [text |-> "I am a bit tired", polarity |-> -20, predicted |-> "sadness"],
     [text |-> "This is terrible", polarity |-> -100, predicted |-> "sadness"]}

\* what listens on API_URL: nothing, the application of backend/app/main.py
\* (it has no /predict route), the application of backend/ml_model/api.py, or
\* a service that answers with the keys analyze_emotion reads
Backends ==
    {[kind |-> "down"], [kind |-> "main"]}
        \cup {[kind |-> "ml_model", loaded |-> l, fails |-> f] :
                 <<l, f>> \in {<<TRUE, FALSE>>, <<TRUE, TRUE>>, <<FALSE, FALSE>>}}
        \cup {[kind |-> "emotion_api", emotion |-> e, score |-> 425] :
                 e \in {"Joy", "Calm"}}

NoClient == [configured |-> FALSE]

\* client (line 41): None without GROQ_API_KEY, else a client whose call
\* raises or answers
Clients ==
    {NoClient, [configured |-> TRUE, raises |-> TRUE, error |-> "Connection error."]}
        \cup {[configured |-> TRUE, raises |-> FALSE, emotion |-> a,
               email |-> "Tone: formal\nPoliteness: 80/100\nEmotional Intent: request\n"] :
                 a \in {"Primary Emotion: Sadness\nSecondary Emotions: Anger\nConfidence: 90%\n",
                        " The writer sounds overjoyed. "}}

EmotionEnvs == [input : InputTexts, backend : Backends, client : Clients]

\* predict of backend/ml_model/api.py: the JSON body it answers with
MlPredict(svc, input) ==
    IF ~svc.loaded
    THEN SetItem(EmptyDict, "error", Str("Model not loaded. Please check server logs."))
    ELSE IF svc.fails
    THEN SetItem(EmptyDict, "error", Str("X has 12 features, but 13 are expected"))
    ELSE SetItem(SetItem(EmptyDict, "input_text", Str(input.text)),
                 "predicted_emotion", Str(input.predicted))

\* res.status_code == 200
Ok == 200

\* requests.post(f"{API_URL}/predict", json={"text": text}, timeout=10)
PostPredict(b, input) ==
    CASE b.kind = "down" ->
           [exc |-> "ConnectionError", status |-> 0, json |-> EmptyDict]
      [] b.kind = "main" ->
           [exc |-> NoException, status |-> 404,
            json |-> SetItem(EmptyDict, "detail", Str("Not Found"))]
      [] b.kind = "ml_model" ->
           [exc |-> NoException, status |-> Ok, json |-> MlPredict(b, input)]
      [] b.kind = "emotion_api" ->
           [exc |-> NoException, status |-> Ok,
            json |-> SetItem(SetItem(EmptyDict, "emotion", Str(b.emotion)),
                             "score", Num(b.score))]

-----------------------------------------------------------------------------
(* analyze_emotion, analyze_email *)

\* dict.get(k, default)
GetOr(d, k, default) == IF k \in DOMAIN d THEN d[k] ELSE default

\* scores are in 1/100
DefaultScore == 250
ScoreHigh == 400
ScoreLow == 200

\* lines 117-129: the tuple built from a 200 answer
BackendResult(data) ==
    LET primary_emotion == GetOr(data, "emotion", Str("Neutral"))
        score == GetOr(data, "score", Num(DefaultScore))
        emoji == EmojiGet(primary_emotion.str, SlightSmile)
        tb_label == primary_emotion
        backend_label ==
            "Backend model detected " \o primary_emotion.str \o " with score "
                \o FloatStr(score.val) \o "\n"
        ai_reason ==
            "AI analysis: Emotion " \o primary_emotion.str \o " detected confidently."
    IN  <<Str(backend_label), Str(emoji), score, Str(ai_reason), tb_label,
          primary_emotion>>

\* round(((polarity + 1) / 2) * 5, 2)
TbScore(polarity) == Round((polarity + 100) * 25, 10)

\* lines 141-146: tb_label, icon
TbLabel(score) ==
    IF score > ScoreHigh THEN <<"Positive", SlightSmile>>
    ELSE IF score < ScoreLow THEN <<"Negative", Worried>>
    ELSE <<"Neutral", NeutralFace>>

NoClientMessage == "GROQ not configured or API key missing."
NoKeyMessage == "API key not set."

\* f"Error: {e}"
ErrorText(e) == "Error: " \o e

\* variant: calls client.chat.completions.create without `if client:`, so
\* that a missing client ends in the except branch
LabelAI_NoClientCheck(c) ==
    IF ~c.configured THEN ErrorText("'NoneType' object has no attribute 'chat'")
    ELSE IF c.raises THEN ErrorText(c.error)
    ELSE Strip(c.emotion)

\* lines 148-175: label_ai
LabelAI(c) ==
    IF ~c.configured THEN NoClientMessage
    ELSE IF c.raises THEN ErrorText(c.error)
    ELSE Strip(c.emotion)

\* lines 137-180: the tuple of the fallback
FallbackResult(e) ==
    LET score == TbScore(e.input.polarity)
        tb_label == TbLabel(score)[1]
        icon == TbLabel(score)[2]
        label_ai == LabelAI(e.client)
        primary_emotion == extract_emotion(label_ai)
        emoji == EmojiGet(primary_emotion, NeutralFace)
    IN  <<Str(tb_label), Str(icon), Num(score), Str(label_ai),
          Str(primary_emotion), Str(emoji)>>

\* lines 763 and 795:
\* backend_label, emoji, score, ai_reason, tb_label, primary_emotion = ...
Unpack(r) ==
    [backend_label |-> r[1], emoji |-> r[2], score |-> r[3], ai_reason |-> r[4],
     tb_label |-> r[5], primary_emotion |-> r[6]]

\* lines 185-209: what analyze_email returns
EmailResult(c) ==
    IF ~c.configured THEN NoKeyMessage
    ELSE IF c.raises THEN ErrorText(c.error)
    ELSE Strip(c.email)

\* the class a failing call of the LLM client raises
ClientRaises(c) == IF c.configured /\ c.raises THEN "APIConnectionError" ELSE NoException

InitEmotion ==
    /\ audio = NoAudio
    /\ pc = "page"
    /\ fs = [n \in {} |-> EmptyFile]
    /\ tmp_name = 0
    /\ y = NoSamples
    /\ features = EmptyDict
    /\ selected = Unbound
    /\ jitter = None
    /\ result = None
    /\ interpretation = <<>>
    /\ ran = {}
    /\ calls = <<>>
    /\ text = None
    /\ heard = NotReturned
    /\ escaped = NoException
    /\ listens = 0
    /\ analyses = 0
    /\ clicks = 0
    /\ env \in EmotionEnvs
    /\ ret = None
    /\ bound = NoBindings
    /\ mail = None
    /\ logged_in = TRUE
    /\ last_spoken = ""
    /\ said = <<>>
    /\ spoken = <<>>
    /\ SessionIdle
    /\ BackendIdle

NotEmotion ==
    <<voiceVars_but_pc, text, heard, listens, analyses, clicks, speakVars,
      sessionVars, backendVars>>

\* lines 114-134: the backend is tried first
Predict ==
    /\ pc = "page"
    /\ LET res == PostPredict(env.backend, env.input)
       IN  IF res.exc # NoException
           THEN IF Handles(res.exc)
                THEN pc' = "em_fallback" /\ UNCHANGED <<ret, escaped>>
                ELSE Escape(res.exc) /\ UNCHANGED ret
           ELSE IF res.status = Ok
           THEN ret' = BackendResult(res.json) /\ pc' = "em_returned"
                /\ UNCHANGED escaped
           ELSE pc' = "em_fallback" /\ UNCHANGED <<ret, escaped>>
    /\ UNCHANGED <<env, bound, mail>>
    /\ UNCHANGED NotEmotion

\* lines 137-180: TextBlob and, with a client, the LLM
Fallback ==
    /\ pc = "em_fallback"
    /\ IF ClientRaises(env.client) # NoException /\ ~Handles(ClientRaises(env.client))
       THEN Escape(ClientRaises(env.client)) /\ UNCHANGED ret
       ELSE ret' = FallbackResult(env) /\ pc' = "em_returned" /\ UNCHANGED escaped
    /\ UNCHANGED <<env, bound, mail>>
    /\ UNCHANGED NotEmotion

\* empathy_page unpacks the tuple (lines 763, 795)
Bind ==
    /\ pc = "em_returned"
    /\ bound' = Unpack(ret)
    /\ pc' = "em_bound"
    /\ UNCHANGED <<env, ret, mail, escaped>>
    /\ UNCHANGED NotEmotion

\* "Analyze Email" (lines 821-823)
AnalyzeEmail ==
    /\ pc = "page"
    /\ IF ClientRaises(env.client) # NoException /\ ~Handles(ClientRaises(env.client))
       THEN Escape(ClientRaises(env.client)) /\ UNCHANGED mail
       ELSE mail' = Str(EmailResult(env.client)) /\ pc' = "mail_done"
            /\ UNCHANGED escaped
    /\ UNCHANGED <<env, ret, bound>>
    /\ UNCHANGED NotEmotion

NextEmotion ==
    \/ Predict
    \/ Fallback
    \/ Bind
    \/ AnalyzeEmail

SpecEmotion == InitEmotion /\ [][NextEmotion]_vars

-----------------------------------------------------------------------------
(* speak and the handlers that call it *)

MaxSaid == 4

\* variant: no memory of the last utterance
Repeats_Never(t, last) == FALSE

\* text.strip() == last_spoken.strip()  (line 51)
Repeats(t, last) == Strip(t) = Strip(last)

\* speak(text) (lines 47-64) on the session [last, out, said]; every text the
\* handlers pass is a str, so `text and isinstance(text, str)` is text != ""
speak(st, t) ==
    IF t # "" /\ ~Repeats(t, st.last)
    THEN [last |-> t, out |-> Append(st.out, t), said |-> Append(st.said, t)]
    ELSE [st EXCEPT !.said = Append(st.said, t)]

\* the calls of speak a handler makes, in order
RECURSIVE SpeakEach(_, _)
SpeakEach(st, texts) ==
    IF texts = <<>> THEN st ELSE SpeakEach(speak(st, Head(texts)), Tail(texts))

Speaks(texts) ==
    LET st == SpeakEach([last |-> last_spoken, out |-> spoken, said |-> said], texts)
    IN  /\ Len(said) < MaxSaid
        /\ last_spoken' = st.last
        /\ spoken' = st.out
        /\ said' = st.said

\* what the user typed in the text area
TextInputs == {"", "fine", "fine "}

\* what analyze_emotion's sixth result is bound to: a label or an emoji
PrimaryEmotions == {"Neutral", NeutralFace}

\* what analyze_email returned: a message, or an empty answer of the LLM
EmailResults == {NoKeyMessage, ""}

NotSpeak == <<voiceVars, speechVars, emotionVars, backendVars>>

\* lines 516-523: a new session
InitSpeak ==
    /\ audio = NoAudio
    /\ pc = "page"
    /\ fs = [n \in {} |-> EmptyFile]
    /\ tmp_name = 0
    /\ y = NoSamples
    /\ features = EmptyDict
    /\ selected = Unbound
    /\ jitter = None
    /\ result = None
    /\ interpretation = <<>>
    /\ ran = {}
    /\ calls = <<>>
    /\ text = None
    /\ heard = NotReturned
    /\ escaped = NoException
    /\ listens = 0
    /\ analyses = 0
    /\ clicks = 0
    /\ env = NoEnv
    /\ ret = None
    /\ bound = NoBindings
    /\ mail = None
    /\ logged_in = FALSE
    /\ last_spoken = ""
    /\ said = <<>>
    /\ spoken = <<>>
    /\ page = "login"
    /\ username = None
    /\ token = Absent
    /\ view = "login"
    /\ resp = None
    /\ BackendIdle

\* the router (lines 879-888): the page a run of the script renders
Router(li, pg) ==
    IF ~li THEN (IF pg = "login" THEN "login" ELSE "signup") ELSE "empathy"

\* st.rerun(): the script runs again on the new session state
Rerun(li, pg) == view' = Router(li, pg)

\* an answer of the backend as the frontend sees it; status 0: the request
\* raised (no answer, or a timeout)
Answer(endpoint, status) == [endpoint |-> endpoint, status |-> status]

Unauthorized == 401
BadRequest == 400

\* what POST /login can answer: main.py answers 200 or 401, the framework 500
LoginAnswers == {Ok, Unauthorized, 500, 0}

\* what POST /signup can answer
SignupAnswers == {Ok, BadRequest, 500, 0}

\* the names users register and log in with
Usernames == {"asha", "ravi"}

DemoToken == "dummy_token_for_demo"

\* variant: `if res.status_code != 401:`
LoginAccepts_NotRefused(status) == status # 0 /\ status # Unauthorized

\* `if res.status_code == 200:` (line 615)
LoginAccepts(status) == status = Ok

\* the body of an answer is JSON: the error page of a 500 is not
HasJson(status) == status \in {Ok, Unauthorized, BadRequest}

\* "Login" (lines 612-627)
Login ==
    /\ view = "login"
    /\ \E status \in LoginAnswers, u \in Usernames :
           /\ resp' = Answer("/login", status)
           /\ IF status # 0 /\ LoginAccepts(status)
              THEN /\ logged_in' = TRUE
                   /\ username' = Str(u)
                   /\ token' = Str(DemoToken)
                   /\ Speaks(<<"Login successful. Welcome to Empathy Meter.">>)
                   /\ UNCHANGED page
                   /\ Rerun(TRUE, page)
              ELSE IF status # 0 /\ HasJson(status)
              THEN /\ Speaks(<<"Invalid username or password.">>)
                   /\ UNCHANGED <<logged_in, page, username, token, view>>
              ELSE UNCHANGED <<speakVars, page, username, token, view>>
    /\ UNCHANGED NotSpeak

\* "Sign Up" on the login page (lines 630-632)
GoSignup ==
    /\ view = "login"
    /\ page' = "signup"
    /\ Rerun(logged_in, "signup")
    /\ UNCHANGED <<speakVars, username, token, resp>>
    /\ UNCHANGED NotSpeak

\* "Register" (lines 650-672)
Register ==
    /\ view = "signup"
    /\ \E fields \in {"missing", "mismatch", "filled"}, status \in SignupAnswers :
           CASE fields = "missing" ->
                  /\ Speaks(<<"All fields are required.">>)
                  /\ UNCHANGED <<logged_in, page, username, token, view, resp>>
             [] fields = "mismatch" ->
                  /\ Speaks(<<"Passwords do not match.">>)
                  /\ UNCHANGED <<logged_in, page, username, token, view, resp>>
             [] fields = "filled" ->
                  /\ resp' = Answer("/signup", status)
                  /\ IF status = Ok
                     THEN /\ Speaks(<<"Account created successfully. Please login now.">>)
                          /\ page' = "login"
                          /\ UNCHANGED <<logged_in, username, token>>
                          /\ Rerun(logged_in, "login")
                     ELSE UNCHANGED <<speakVars, page, username, token, view>>
    /\ UNCHANGED NotSpeak

\* "Back to Login" (lines 675-677)
BackToLogin ==
    /\ view = "signup"
    /\ page' = "login"
    /\ Rerun(logged_in, "login")
    /\ UNCHANGED <<speakVars, username, token, resp>>
    /\ UNCHANGED NotSpeak

\* "Analyze Text" (lines 759-781)
AnalyzeText ==
    /\ logged_in
    /\ view = "empathy"
    /\ \E text_in \in TextInputs, primary_emotion \in PrimaryEmotions :
           IF Strip(text_in) # ""
           THEN Speaks(<<"You wrote: " \o text_in,
                         "Primary emotion detected: " \o primary_emotion \o ".">>)
           ELSE Speaks(<<"Please enter text first.">>)
    /\ UNCHANGED logged_in
    /\ UNCHANGED sessionVars
    /\ UNCHANGED NotSpeak

\* "Start Recording" (lines 786-803)
Record ==
    /\ logged_in
    /\ view = "empathy"
    /\ \E h \in {None} \cup {Str(t) : t \in Transcripts} :
           IF ~Truthy(h)
           THEN Speaks(<<"I could not understand you. Please try again.">>)
           ELSE Speaks(<<"You said: " \o h.str, "This sounds Neutral.">>)
    /\ UNCHANGED logged_in
    /\ UNCHANGED sessionVars
    /\ UNCHANGED NotSpeak

\* "Analyze Email" with a non-blank email (lines 821-825)
SpeakEmail ==
    /\ logged_in
    /\ view = "empathy"
    /\ \E r \in EmailResults : Speaks(<<r>>)
    /\ UNCHANGED logged_in
    /\ UNCHANGED sessionVars
    /\ UNCHANGED NotSpeak

\* "Logout" (lines 869-876)
Logout ==
    /\ logged_in
    /\ view = "empathy"
    /\ logged_in' = FALSE
    /\ page' = "login"
    /\ username' = None
    /\ token' = None
    /\ Rerun(FALSE, "login")
    /\ UNCHANGED <<last_spoken, said, spoken, resp>>
    /\ UNCHANGED NotSpeak

NextSpeak ==
    \/ Login
    \/ GoSignup
    \/ Register
    \/ BackToLogin
    \/ AnalyzeText
    \/ Record
    \/ SpeakEmail
    \/ Logout

SpecSpeak == InitSpeak /\ [][NextSpeak]_vars

-----------------------------------------------------------------------------
(* The backend (backend/app/main.py): users *)

MaxRequests == 3

NotBackend == <<voiceVars, speechVars, emotionVars, speakVars, sessionVars>>

\* the frontend while only the backend is looked at
FrontendIdle ==
    /\ audio = NoAudio
    /\ pc = "page"
    /\ fs = [n \in {} |-> EmptyFile]
    /\ tmp_name = 0
    /\ y = NoSamples
    /\ features = EmptyDict
    /\ selected = Unbound
    /\ jitter = None
    /\ result = None
    /\ interpretation = <<>>
    /\ ran = {}
    /\ calls = <<>>
    /\ text = None
    /\ heard = NotReturned
    /\ escaped = NoException
    /\ listens = 0
    /\ analyses = 0
    /\ clicks = 0
    /\ env = NoEnv
    /\ ret = None
    /\ bound = NoBindings
    /\ mail = None
    /\ logged_in = FALSE
    /\ last_spoken = ""
    /\ said = <<>>
    /\ spoken = <<>>
    /\ page = "login"
    /\ username = None
    /\ token = Absent
    /\ view = "login"
    /\ resp = None

Passwords == {"secret"}

\* bcrypt.hash(password)
Hash(pw) == <<"bcrypt", pw>>

\* db.query(User).filter(User.username == name).first(): the row, or None
FirstUser(table, name) ==
    LET hits == {i \in DOMAIN table : table[i].username = name}
    IN  IF hits = {} THEN None
        ELSE table[CHOOSE i \in hits : \A j \in hits : i <= j]

\* the unique index on users.username (line 21) accepts the row
UniqueAccepts(table, name) == \A i \in DOMAIN table : table[i].username # name

\* the answer of an HTTPException
HttpError(status, detail) == [status |-> status, detail |-> detail]

\* the answer the framework gives when the handler raises anything else
InternalError == HttpError(500, "Internal Server Error")

\* db.commit() raises IntegrityError, which the handler does not catch
OnDuplicateInsert == InternalError

AlreadyRegistered == HttpError(BadRequest, "Username already registered")

\* lines 103-105 of a new request: the lookup
SignupLookup ==
    /\ Len(reqs) < MaxRequests
    /\ \E u \in Usernames, pw \in Passwords :
           LET db_user == FirstUser(users, u)
               r == Len(reqs) + 1
               req == [username |-> u, password |-> pw, taken |-> db_user # None,
                       inserted |-> FALSE]
           IN  IF db_user # None
               THEN /\ reqs' = Append(reqs, [req EXCEPT !.taken = TRUE] @@
                                            [pc |-> "done", answer |-> AlreadyRegistered])
                    /\ reply' = AlreadyRegistered
               ELSE /\ reqs' = Append(reqs, req @@ [pc |-> "looked", answer |-> None])
                    /\ UNCHANGED reply
    /\ UNCHANGED <<users, scores, emails, log, now>>
    /\ UNCHANGED NotBackend

\* lines 107-112 of a request that found no user: hash, add, commit, answer
SignupInsert ==
    /\ \E r \in DOMAIN reqs :
           /\ reqs[r].pc = "looked"
           /\ LET u == reqs[r].username
                  row == [id |-> Len(users) + 1, username |-> u,
                          password |-> Hash(reqs[r].password)]
                  created == [status |-> Ok, msg |-> "User created successfully",
                              username |-> u]
              IN  IF UniqueAccepts(users, u)
                  THEN /\ users' = Append(users, row)
                       /\ reqs' = [reqs EXCEPT ![r].pc = "done", ![r].answer = created,
                                               ![r].inserted = TRUE]
                       /\ reply' = created
                  ELSE /\ UNCHANGED users
                       /\ reqs' = [reqs EXCEPT ![r].pc = "done",
                                               ![r].answer = OnDuplicateInsert,
                                               ![r].taken = TRUE]
                       /\ reply' = OnDuplicateInsert
    /\ UNCHANGED <<scores, emails, log, now>>
    /\ UNCHANGED NotBackend

InitSignup == FrontendIdle /\ BackendIdle

NextSignup ==
    \/ SignupLookup
    \/ SignupInsert

SpecSignup == InitSignup /\ [][NextSignup]_vars

-----------------------------------------------------------------------------
(* Regular expressions of submit_email_analysis *)

CharAt(s, i) == SubSeq(s, i, i)

Digits == {"0", "1", "2", "3", "4", "5", "6", "7", "8", "9"}

Letters ==
    {"a", "b", "c", "d", "e", "f", "g", "h", "i", "j", "k", "l", "m", "n", "o", "p",
     "q", "r", "s", "t", "u", "v", "w", "x", "y", "z",
     "A", "B", "C", "D", "E", "F", "G", "H", "I", "J", "K", "L", "M", "N", "O", "P",
     "Q", "R", "S", "T", "U", "V", "W", "X", "Y", "Z"}

\* length of the longest run of white space (\s) that starts at i
RECURSIVE SpaceRun(_, _)
SpaceRun(s, i) ==
    IF i <= Len(s) /\ IsSpace(CharAt(s, i)) THEN 1 + SpaceRun(s, i + 1) ELSE 0

\* the same for [A-Za-z ]
RECURSIVE LetterRun(_, _)
LetterRun(s, i) ==
    IF i <= Len(s) /\ CharAt(s, i) \in Letters \cup {" "}
    THEN 1 + LetterRun(s, i + 1)
    ELSE 0

\* the same for \d
RECURSIVE DigitRun(_, _)
DigitRun(s, i) ==
    IF i <= Len(s) /\ CharAt(s, i) \in Digits THEN 1 + DigitRun(s, i + 1) ELSE 0

NoMatch == [found |-> FALSE, group |-> ""]

\* `key\s*([A-Za-z ]+)` tried where key ends just before position a: \s* takes
\* as much white space as leaves a letter or a space for the group to start
\* with, then the group takes all letters and spaces that follow
LettersAt(s, a) ==
    LET w == SpaceRun(s, a)
        starts == {k \in 0..w : LetterRun(s, a + k) > 0}
        k == CHOOSE x \in starts : \A z \in starts : z <= x
        g == a + k
    IN  IF starts = {} THEN NoMatch
        ELSE [found |-> TRUE, group |-> SubSeq(s, g, g + LetterRun(s, g) - 1)]

\* `key\s*(\d+)\s*/\s*100` tried where key ends just before position a
PercentAt(s, a) ==
    LET d == a + SpaceRun(s, a)
        n == DigitRun(s, d)
        slash == d + n + SpaceRun(s, d + n)
        h == slash + 1 + SpaceRun(s, slash + 1)
    IN  IF n > 0 /\ slash <= Len(s) /\ CharAt(s, slash) = "/"
           /\ h + 2 <= Len(s) /\ SubSeq(s, h, h + 2) = "100"
        THEN [found |-> TRUE, group |-> SubSeq(s, d, d + n - 1)]
        ELSE NoMatch

\* the part of a pattern after its key: letters, or a percentage
RestAt(s, a, rest) == IF rest = "letters" THEN LettersAt(s, a) ELSE PercentAt(s, a)

\* the literal key occurs in s at position i
KeyAt(s, i, key) == i + Len(key) - 1 <= Len(s) /\ SubSeq(s, i, i + Len(key) - 1) = key

\* re.search of a pattern that starts with one of the literal keys: the match
\* at the leftmost position where a key occurs and the rest matches
Search(s, keys, rest) ==
    LET hits == {i \in 1..Len(s) :
                    \E key \in keys :
                        KeyAt(s, i, key) /\ RestAt(s, i + Len(key), rest).found}
        i == CHOOSE x \in hits : \A z \in hits : x <= z
        key == CHOOSE k \in keys : KeyAt(s, i, k)
    IN  IF hits = {} THEN NoMatch ELSE RestAt(s, i + Len(key), rest)

\* re.search(r"Tone:\s*([A-Za-z ]+)", analysis)
ToneMatch(s) == Search(s, {"Tone:"}, "letters")

\* re.search(r"Politeness:\s*(\d+)\s*/\s*100", analysis)
PolMatch(s) == Search(s, {"Politeness:"}, "percent")

\* re.search(r"(?:Emotional Intent|Intent):\s*([A-Za-z ]+)", analysis)
IntentMatch(s) == Search(s, {"Emotional Intent:", "Intent:"}, "letters")

DigitVal(c) == CHOOSE d \in 0..9 : ToString(d) = c

\* int(digits)
RECURSIVE IntOf(_)
IntOf(digits) ==
    IF digits = "" THEN 0
    ELSE 10 * IntOf(SubSeq(digits, 1, Len(digits) - 1))
            + DigitVal(CharAt(digits, Len(digits)))

-----------------------------------------------------------------------------
(* The backend: submit_email_analysis *)

MaxEmailRequests == 1

NotFound == 404

\* an answer of the assistant in the format analyze_email asks for
LlmAnalysis == "Tone: formal\nPoliteness: 80/100\nEmotional Intent: request"

\* what the model assistant writes, what the comment of line 154 shows, the
\* messages analyze_email returns without an answer, and partial analyses
Analyses ==
    {LlmAnalysis,
     "Tone: Informal Politeness: 60/100 Emotional Intent: Impatience",
     "API key not set.",
     "",
     "Tone: warm\nIntent: thanks",
     "Politeness: 7 / 100"}

\* validated bodies of POST /submit_email_analysis (EmailFlexible); a user who
\* is not registered sends no analysis or the assistant's
EmailPayloads ==
    {p \in [username : Usernames,
            email_text : {"Please send the report today."},
            tone : {None, Str("Formal")},
            politeness : {None, Num(0), Num(75)},
            intent : {None, Str("Request")},
            analysis : {None} \cup {Str(a) : a \in Analyses}] :
        p.username = "asha" \/ p.analysis \in {None, Str(LlmAnalysis)}}

\* variant: a parsed field replaces the one sent
Pick_ParsedFirst(sent, match, parsed) == IF match.found THEN parsed ELSE sent

\* `if tone is None and tone_match: tone = ...` (lines 159-164)
Pick(sent, match, parsed) == IF sent = None /\ match.found THEN parsed ELSE sent

\* lines 147-164: tone, politeness, intent after the optional parse
EmailFields(payload) ==
    IF Truthy(payload.analysis)
    THEN LET a == payload.analysis.str
         IN  [tone |-> Pick(payload.tone, ToneMatch(a), Str(Strip(ToneMatch(a).group))),
              politeness |-> Pick(payload.politeness, PolMatch(a),
                                  Num(IntOf(PolMatch(a).group))),
              intent |-> Pick(payload.intent, IntentMatch(a),
                              Str(Strip(IntentMatch(a).group)))]
    ELSE [tone |-> payload.tone, politeness |-> payload.politeness,
          intent |-> payload.intent]

FieldsRequired ==
    HttpError(BadRequest,
              "tone, politeness, and intent are required (either individually or parsable from 'analysis').")

UserNotFound == HttpError(NotFound, "User not found")

\* a served request as the log keeps it
Served(endpoint, payload, answer, before, after) ==
    [endpoint |-> endpoint, payload |-> payload, answer |-> answer,
     before |-> before, after |-> after]

\* POST /submit_email_analysis (lines 141-190)
SubmitEmailAnalysis ==
    /\ Len(log) < MaxEmailRequests
    /\ \E payload \in EmailPayloads : \E f \in {EmailFields(payload)} :
           LET user == FirstUser(users, payload.username)
               rec == [id |-> Len(emails) + 1, user_id |-> user.id,
                       email_text |-> payload.email_text, tone |-> f.tone,
                       politeness |-> f.politeness, intent |-> f.intent,
                       timestamp |-> now + 1]
               stored == [status |-> Ok, msg |-> "Email analysis stored successfully",
                          id |-> rec.id, tone |-> rec.tone,
                          politeness |-> rec.politeness, intent |-> rec.intent,
                          timestamp |-> rec.timestamp]
               answer == IF user = None THEN UserNotFound
                         ELSE IF f.tone = None \/ f.politeness = None \/ f.intent = None
                         THEN FieldsRequired
                         ELSE stored
           IN  /\ reply' = answer
               /\ IF answer.status = Ok
                  THEN emails' = Append(emails, rec) /\ now' = now + 1
                  ELSE UNCHANGED <<emails, now>>
               /\ log' = Append(log, Served("/submit_email_analysis", payload, answer,
                                            Len(emails), Len(emails')))
    /\ UNCHANGED <<users, scores, reqs>>
    /\ UNCHANGED NotBackend

\* the tables after asha has signed up
RegisteredUsers == <<[id |-> 1, username |-> "asha", password |-> Hash("secret")]>>

InitEmail ==
    /\ FrontendIdle
    /\ users = RegisteredUsers
    /\ scores = <<>>
    /\ emails = <<>>
    /\ reqs = NoRequests
    /\ reply = None
    /\ log = <<>>
    /\ now = 0

NextEmail == SubmitEmailAnalysis

SpecEmail == InitEmail /\ [][NextEmail]_vars

-----------------------------------------------------------------------------
(* The backend: submit_score, get_user_scores *)

MaxScoreRequests == 3

\* the names requests carry: two registered users and one who is not
ScoreUsernames == Usernames \cup {"zoe"}

\* validated bodies of POST /submit_score (ScoreCreate); score in 1/100
ScorePayloads ==
    [username : ScoreUsernames, text : {"I feel fine"}, score : {Num(250), Num(450)}]

\* the tables after asha and ravi have signed up
TwoUsers ==
    <<[id |-> 1, username |-> "asha", password |-> Hash("secret")],
      [id |-> 2, username |-> "ravi", password |-> Hash("secret")]>>

\* the sequence without its i-th element
Remove(seq, i) == SubSeq(seq, 1, i - 1) \o SubSeq(seq, i + 1, Len(seq))

\* .order_by(EmpathyScore.timestamp.desc())
RECURSIVE OrderByTimestampDesc(_)
OrderByTimestampDesc(rows) ==
    IF rows = <<>> THEN <<>>
    ELSE LET i == CHOOSE x \in DOMAIN rows :
                      \A z \in DOMAIN rows : rows[z].timestamp <= rows[x].timestamp
         IN  <<rows[i]>> \o OrderByTimestampDesc(Remove(rows, i))

\* variant: no filter on the user
ScoresOf_Everyone(table, user) == table

\* db.query(EmpathyScore).filter(EmpathyScore.user_id == user.id)
ScoresOf(table, user) == SelectSeq(table, LAMBDA s : s.user_id = user.id)

\* lines 204-207: the list the endpoint answers with
ScoreList(rows) ==
    [status |-> Ok,
     body |-> [i \in DOMAIN rows |->
                  [text |-> rows[i].text, score |-> rows[i].score,
                   timestamp |-> rows[i].timestamp]]]

\* POST /submit_score (lines 127-136); the clock has advanced when the row
\* gets its timestamp
SubmitScore ==
    /\ Len(log) < MaxScoreRequests
    /\ \E payload \in ScorePayloads :
           LET user == FirstUser(users, payload.username)
               new_score == [id |-> Len(scores) + 1, text |-> payload.text,
                             score |-> payload.score, timestamp |-> now + 1,
                             user_id |-> user.id]
               saved == [status |-> Ok, msg |-> "Score saved successfully",
                         id |-> new_score.id]
               answer == IF user = None THEN UserNotFound ELSE saved
           IN  /\ reply' = answer
               /\ IF user = None
                  THEN UNCHANGED <<scores, now>>
                  ELSE scores' = Append(scores, new_score) /\ now' = now + 1
               /\ log' = Append(log, Served("/submit_score", payload, answer,
                                            Len(scores), Len(scores')))
    /\ UNCHANGED <<users, emails, reqs>>
    /\ UNCHANGED NotBackend

\* GET /user_scores/{username} (lines 193-207)
GetUserScores ==
    /\ Len(log) < MaxScoreRequests
    /\ \E name \in ScoreUsernames :
           LET user == FirstUser(users, name)
               answer == IF user = None THEN UserNotFound
                         ELSE ScoreList(OrderByTimestampDesc(ScoresOf(scores, user)))
           IN  /\ reply' = answer
               /\ log' = Append(log, Served("/user_scores", name, answer,
                                            Len(scores), Len(scores)))
    /\ UNCHANGED <<users, scores, emails, reqs, now>>
    /\ UNCHANGED NotBackend

InitScores ==
    /\ FrontendIdle
    /\ users = TwoUsers
    /\ scores = <<>>
    /\ emails = <<>>
    /\ reqs = NoRequests
    /\ reply = None
    /\ log = <<>>
    /\ now = 0

NextScores ==
    \/ SubmitScore
    \/ GetUserScores

SpecScores == InitScores /\ [][NextScores]_vars

-----------------------------------------------------------------------------
(* Properties *)

Returned == pc \in {"returned", "interpreted"}

IsReport(r) == DOMAIN r = FeatureKeys
IsError(r) == DOMAIN r = {KError}

\* the reported jitter that equals the threshold 0.18, in 10^-4
ReportedThreshold == TrembleThreshold \div 100

\* number of candidates that survive the magnitude and positivity filter
Survivors(cells) ==
    Cardinality({i \in DOMAIN cells :
                    cells[i].f > 0 /\ 2 * cells[i].m >= Threshold2(cells)})

\* C1: analyze_voice_features returns either a report with exactly the five
\* feature keys or a dict whose only key is "error"; never a partial report and
\* never "error" next to feature keys.
C1_ReturnShape ==
    Returned => (IsReport(result) \/ IsError(result))

C1_Witness ==
    /\ pc = "returned"
    /\ IsReport(result)
    /\ result[KPitch] = None
    /\ result[KTempo] # None
    /\ result[KTremble] = Str(TrembleNA)

\* C2 as stated: in every report the tremble is Yes iff the reported (rounded)
\* Jitter is > 0.18, No iff it is a number <= 0.18, N/A iff it is None.
C2_TrembleByReportedJitter ==
    (Returned /\ IsReport(result)) =>
        LET j == result[KJitter]
            t == result[KTremble]
        IN  /\ t = Str(TrembleYes) <=> (IsNum(j) /\ j.val > ReportedThreshold)
            /\ t = Str(TrembleNo) <=> (IsNum(j) /\ j.val <= ReportedThreshold)
            /\ t = Str(TrembleNA) <=> j = None

\* C2 amended: the tremble is Yes iff the unrounded jitter is > 0.18, No iff the
\* unrounded jitter is a number <= 0.18, N/A iff Jitter is None; the reported
\* Jitter is the unrounded one rounded to 4 decimals, so a reported Jitter > 0.18
\* implies Yes and No implies a reported Jitter <= 0.18.
C2_TrembleByUnroundedJitter ==
    (Returned /\ IsReport(result)) =>
        LET j == result[KJitter]
            t == result[KTremble]
        IN  /\ t = Str(TrembleYes) <=> (IsNum(jitter) /\ jitter.val > TrembleThreshold)
            /\ t = Str(TrembleNo) <=> (IsNum(jitter) /\ jitter.val <= TrembleThreshold)
            /\ t = Str(TrembleNA) <=> j = None
            /\ j = None <=> jitter = None
            /\ IsNum(jitter) => j = Num(Round(jitter.val, 100))
            /\ (IsNum(j) /\ j.val > ReportedThreshold) => t = Str(TrembleYes)
            /\ t = Str(TrembleNo) => (IsNum(j) /\ j.val <= ReportedThreshold)

\* a report whose Jitter reads 0.18 and whose tremble is Yes
C2_Witness ==
    /\ pc = "returned"
    /\ IsReport(result)
    /\ result[KJitter] = Num(ReportedThreshold)
    /\ result[KTremble] = Str(TrembleYes)

\* C3: Jitter is a number only when the pitch is available and at least two
\* candidates survived the filter; when the pitch is unavailable (also because
\* the pitch step raised) or fewer than two survived, Jitter is None and the
\* tremble is N/A.
C3_JitterNeedsPitchAndTwo ==
    (Returned /\ IsReport(result)) =>
        LET n == Survivors(y.frames)
        IN  /\ IsNum(result[KJitter]) => (IsNum(result[KPitch]) /\ n >= 2)
            /\ (result[KPitch] = None \/ n < 2) =>
                   (result[KJitter] = None /\ result[KTremble] = Str(TrembleNA))
            /\ y.pitchExc = "piptrack" => result[KPitch] = None

\* the pitch step raised after two candidates had survived
C3_Witness ==
    /\ pc = "returned"
    /\ IsReport(result)
    /\ y.pitchExc = "median"
    /\ Survivors(y.frames) >= 2
    /\ result[KPitch] = None
    /\ result[KJitter] = None

\* the steps in which an exception is raised on these samples
Faulted(smp) ==
    {st \in {"pitch", "tempo", "energy", "jitter"} :
        \/ st = "pitch" /\ PitchRaises(smp)
        \/ st = "tempo" /\ smp.tempo.exc
        \/ st = "energy" /\ smp.energy.exc
        \/ st = "jitter" /\ smp.jitterExc}

\* the same samples on which the step does not raise
Repaired(smp, st) ==
    CASE st = "pitch" -> {[smp EXCEPT !.pitchExc = "none"]}
      [] st = "tempo" -> {[smp EXCEPT !.tempo = Returns(v)] : v \in TempoValues}
      [] st = "energy" -> {[smp EXCEPT !.energy = Returns(v)] : v \in EnergyValues}
      [] st = "jitter" -> {[smp EXCEPT !.jitterExc = FALSE]}

StepFields(st) ==
    CASE st = "pitch" -> {KPitch}
      [] st = "tempo" -> {KTempo}
      [] st = "energy" -> {KEnergy}
      [] st = "jitter" -> {KJitter, KTremble}

\* the fields a failure of the step leaves unavailable: jitter derives from pitch
DependentFields(st) ==
    IF st = "pitch" THEN {KPitch, KJitter, KTremble} ELSE StepFields(st)

Unavailable(k, v) == IF k = KTremble THEN v = Str(TrembleNA) ELSE v = None

\* the call ran all four steps and returned a report in which the failure of
\* step st changed none of the fields outside lost(st)
Isolated(lost(_)) ==
    (Returned /\ audio.decode = "ok") =>
        /\ ran = {"pitch", "tempo", "energy", "jitter"}
        /\ IsReport(result)
        /\ \A st \in Faulted(y) :
              /\ \A k \in StepFields(st) : Unavailable(k, result[k])
              /\ \A r \in Repaired(y, st) :
                     \A k \in FeatureKeys \ lost(st) : result[k] = Report(r)[k]

\* C4 as stated: an exception in one estimation step makes only that step's
\* fields unavailable; the other steps run, their fields are as without the
\* exception, and a report is returned.
C4_OnlyFailedStepUnavailable == Isolated(StepFields)

\* C4 amended: every step runs and a report is returned; an exception in the
\* tempo, energy or jitter step changes only that step's fields, and an
\* exception in the pitch step changes only the pitch and the jitter and tremble
\* derived from it.
C4_StepsIsolatedUpToPitchDependency == Isolated(DependentFields)

\* the pitch step raised on a clip with two surviving candidates; tempo and
\* energy are reported
C4_Witness ==
    /\ pc = "returned"
    /\ IsReport(result)
    /\ y.pitchExc = "piptrack"
    /\ Survivors(y.frames) >= 2
    /\ ~y.jitterExc
    /\ result[KJitter] = None
    /\ IsNum(result[KTempo])
    /\ IsNum(result[KEnergy])

\* C5: when the buffer cannot be written or decoded, the call returns a dict
\* with the single key "error" holding a description and runs no estimation step.
C5_DecodeFailure ==
    /\ audio.decode # "ok" => (ran = {} /\ features = EmptyDict)
    /\ (Returned /\ audio.decode # "ok") =>
           /\ IsError(result)
           /\ result[KError].tag = "str"
           /\ FeatureKeys \cap DOMAIN result = {}

C5_Witness ==
    /\ pc = "returned"
    /\ audio.decode = "load"
    /\ result = ErrorDict("load")
    /\ tmp_name \in DOMAIN fs

OptionalLine(messages) == {<<>>} \cup {<<m>> : m \in messages}

\* the lines of an interpretation that are among the messages
LinesOf(lines, messages) == SelectSeq(lines, LAMBDA m : m \in messages)

Interpreted == pc = "interpreted" /\ IsReport(result)

\* C6: the interpretation has 0 to 3 lines: at most one pitch line, then at
\* most one tempo line, then at most one tremble line; pitch 250 Hz, tempo 160
\* BPM and tremble Yes give exactly the high-pitch, fast-speech and
\* tremble-detected lines.
C6_InterpretationOrder ==
    pc = "interpreted" =>
        /\ Len(interpretation) <= 3
        /\ \E p \in OptionalLine(PitchMessages), t \in OptionalLine(TempoMessages),
              r \in OptionalLine(TrembleMessages) : interpretation = p \o t \o r
        /\ (/\ IsReport(result)
            /\ result[KPitch] = Num(25000)
            /\ result[KTempo] = Num(16000)
            /\ result[KTremble] = Str(TrembleYes)) =>
               interpretation = <<HighPitch, FastSpeech, TrembleDetected>>

C6_Witness ==
    /\ Interpreted
    /\ result[KPitch] = Num(25000)
    /\ result[KTempo] = Num(16000)
    /\ result[KTremble] = Str(TrembleYes)
    /\ Len(interpretation) = 3

\* the tempo line of a tempo value
ExpectedTempoLine(v) ==
    IF v < TempoSlow THEN SlowSpeech
    ELSE IF v > TempoFast THEN FastSpeech
    ELSE ModerateTempo

\* C7 as stated: a report whose tempo is a number (0 included) has exactly one
\* tempo line: slow below 80, fast above 150, moderate otherwise; the tempo line
\* is missing only when the tempo is None.
C7_TempoLineForEveryNumber ==
    Interpreted =>
        LET t == result[KTempo]
            lines == LinesOf(interpretation, TempoMessages)
        IN  /\ IsNum(t) => lines = <<ExpectedTempoLine(t.val)>>
            /\ t = None <=> lines = <<>>

\* C7 amended: a report whose tempo is a number other than 0 has exactly one
\* tempo line: slow below 80, fast above 150, moderate otherwise; the tempo line
\* is missing when the tempo is None or 0.
C7_TempoLineForNonZero ==
    Interpreted =>
        LET t == result[KTempo]
            lines == LinesOf(interpretation, TempoMessages)
        IN  /\ (IsNum(t) /\ t.val # 0) => lines = <<ExpectedTempoLine(t.val)>>
            /\ (t = None \/ t = Num(0)) <=> lines = <<>>

\* a report with tempo 0 and pitch and tremble lines, but no tempo line
C7_Witness ==
    /\ Interpreted
    /\ result[KTempo] = Num(0)
    /\ LinesOf(interpretation, TempoMessages) = <<>>
    /\ Len(interpretation) = 2

\* C8: a report whose pitch is a number has exactly one pitch line: low below
\* 140, high above 220, medium from 140 to 220 inclusive; the pitch line is
\* missing only when the pitch is None.
C8_PitchLine ==
    Interpreted =>
        LET p == result[KPitch]
            lines == LinesOf(interpretation, PitchMessages)
        IN  /\ IsNum(p) =>
                   lines = << IF p.val < PitchLow THEN LowPitch
                              ELSE IF p.val > PitchHigh THEN HighPitch
                              ELSE MediumPitch >>
            /\ p = None <=> lines = <<>>

\* a pitch of exactly 220 Hz is medium
C8_Witness ==
    /\ Interpreted
    /\ result[KPitch] = Num(PitchHigh)
    /\ LinesOf(interpretation, PitchMessages) = <<MediumPitch>>

\* C9: the tremble of a returned report is one of the three values the
\* interpretation knows: the interpretation ends with the tremble-detected line
\* iff it is Yes, with the no-tremble line iff it is No, and has no tremble line
\* iff it is N/A.
C9_TrembleRecognised ==
    Interpreted =>
        LET t == result[KTremble]
            n == Len(interpretation)
            lines == LinesOf(interpretation, TrembleMessages)
        IN  /\ t \in {Str(TrembleYes), Str(TrembleNo), Str(TrembleNA)}
            /\ t = Str(TrembleYes) <=> (n > 0 /\ interpretation[n] = TrembleDetected)
            /\ t = Str(TrembleNo) <=> (n > 0 /\ interpretation[n] = NoTremble)
            /\ t = Str(TrembleNA) <=> lines = <<>>

C9_Witness ==
    /\ Interpreted
    /\ result[KTremble] = Str(TrembleYes)
    /\ interpretation[Len(interpretation)] = TrembleDetected

\* what the first call of a session returns for a clip
FirstResult(clip) ==
    IF clip.decode = "ok" THEN Report(clip.samples) ELSE ErrorDict(clip.decode)

\* C10: within a session, two calls on the same clip return the same result,
\* whatever was analyzed in between and whatever files earlier calls left: the
\* result of every call is the one the clip gives in a session of its own.
C10_SameClipSameResult ==
    /\ \A i, j \in DOMAIN calls :
           calls[i][1] = calls[j][1] => calls[i][2] = calls[j][2]
    /\ \A i \in DOMAIN calls : calls[i][2] = FirstResult(calls[i][1])

\* the same decodable clip analyzed twice with another clip in between
C10_Witness ==
    /\ Len(calls) >= 3
    /\ calls[1][1] = calls[3][1]
    /\ calls[2][1] # calls[1][1]
    /\ IsReport(calls[3][2])
    /\ Cardinality(DOMAIN fs) >= 3

\* a clip of silence: no cell holds a peak, the beat tracker finds no onset or
\* fails
Silent(smp) ==
    /\ \A i \in DOMAIN smp.frames : smp.frames[i] = NoPeak
    /\ smp.tempo.exc \/ smp.tempo.val = 0

\* C11: for a clip of silence the call returns a report, not an error, with
\* pitch None, Jitter None and tremble N/A, and the interpretation of that
\* report is empty.
C11_SilenceReport ==
    (audio.decode = "ok" /\ Silent(audio.samples)) =>
        /\ KPitch \in DOMAIN features => features[KPitch] = None
        /\ Returned =>
               /\ IsReport(result)
               /\ result[KPitch] = None
               /\ result[KJitter] = None
               /\ result[KTremble] = Str(TrembleNA)
        /\ pc = "interpreted" => interpretation = <<>>

\* three silent frames, tempo 0, interpreted
C11_Witness ==
    /\ pc = "interpreted"
    /\ audio.decode = "ok"
    /\ Silent(audio.samples)
    /\ Len(audio.samples.frames) = 3
    /\ IsReport(result)
    /\ result[KTempo] = Num(0)
    /\ interpretation = <<>>

\* C13: after analyze_voice_features has returned, with a report or with an
\* error, the temporary file the call created no longer exists.
C13_TempFileDiscarded ==
    Returned => DOMAIN fs = {}

\* the k-th smallest element (k from 0) of a list of integers
OrderStat(s, k) ==
    CHOOSE v \in {s[i] : i \in DOMAIN s} :
        /\ Cardinality({i \in DOMAIN s : s[i] < v}) <= k
        /\ k < Cardinality({i \in DOMAIN s : s[i] <= v})

\* twice the median: the two middle elements added
MiddleSum(s) == OrderStat(s, (Len(s) - 1) \div 2) + OrderStat(s, Len(s) \div 2)

\* the frequencies > 0 whose magnitude is >= the median of the non-zero
\* magnitudes (>= 0 when no magnitude is non-zero)
Qualifying(cells) ==
    LET nz == SelectSeq([i \in DOMAIN cells |-> cells[i].m], LAMBDA m : m > 0)
        thr2 == IF nz = <<>> THEN 0 ELSE MiddleSum(nz)
        ok == SelectSeq(cells, LAMBDA c : c.f > 0 /\ 2 * c.m >= thr2)
    IN  [i \in DOMAIN ok |-> ok[i].f]

\* C16: when the pitch step completes, the reported pitch is the median of
\* exactly the qualifying candidates (2 decimals), and it is None iff there is
\* no qualifying candidate.
C16_PitchIsMedianOfQualifying ==
    (KPitch \in DOMAIN features /\ ~PitchRaises(y)) =>
        LET q == Qualifying(y.frames)
            p == features[KPitch]
        IN  /\ p = None <=> q = <<>>
            /\ q # <<>> => p = Num(50 * MiddleSum(q))
            /\ selected = Bound(q)

\* two peaks of unequal magnitude: only the stronger one qualifies; and a frame
\* without a peak
C16_Witness ==
    /\ pc = "returned"
    /\ y.pitchExc = "none"
    /\ Len(y.frames) = 3
    /\ Qualifying(y.frames) = <<272>>
    /\ \E i \in DOMAIN y.frames : y.frames[i] = [f |-> 139, m |-> 1]
    /\ result[KPitch] = Num(27200)

\* C12: no exception leaves analyze_voice_features or recognize_speech:
\* whatever fails, analyze_voice_features returns a report or an error dict and
\* recognize_speech returns a text or None.
C12_NoExceptionEscapes ==
    /\ escaped = NoException
    /\ pc # "raised"
    /\ Returned => (IsReport(result) \/ IsError(result))
    /\ pc = "rs_done" => (heard = None \/ heard.tag = "str")

\* the transcription and three estimation steps raised; None is returned after
\* a report with the tempo alone
C12_Witness ==
    /\ pc = "rs_done"
    /\ heard = None
    /\ audio \in FaultyClips
    /\ audio.samples.pitchExc = "piptrack"
    /\ IsReport(result)
    /\ IsNum(result[KTempo])
    /\ result[KEnergy] = None

\* C14: one invocation of recognize_speech records at most once and analyzes
\* at most once; when listening fails it returns None without a second attempt
\* and without an analysis; the analyses of a session never outnumber the clicks.
C14_OneAttemptPerInvocation ==
    /\ listens <= 1
    /\ analyses <= listens
    /\ Len(calls) <= clicks
    /\ (pc = "rs_done" /\ audio = NoAudio) =>
           (heard = None /\ listens = 1 /\ analyses = 0)

\* listening failed twice, the second time after a second click
C14_Witness ==
    /\ pc = "rs_done"
    /\ clicks = 2
    /\ audio = NoAudio
    /\ heard = None
    /\ calls = <<>>

\* C17: every captured clip is analyzed, and its report interpreted, whether or
\* not the transcription succeeded; a failed transcription only makes the
\* returned text None.
C17_AnalysisIndependentOfTranscription ==
    /\ (pc \in {"start", "interpreted", "rs_done"} /\ audio # NoAudio) =>
           (text = None \/ text \in {Str(t) : t \in Transcripts})
    /\ (pc = "rs_done" /\ audio # NoAudio) =>
           /\ analyses = 1
           /\ calls # <<>>
           /\ calls[Len(calls)] = <<audio, result>>
           /\ result = FirstResult(audio)
           /\ interpretation =
                  IF IsReport(result) THEN Interpretation(result) ELSE <<>>
           /\ heard = text

\* the transcription failed; the clip was analyzed and interpreted
C17_Witness ==
    /\ pc = "rs_done"
    /\ heard = None
    /\ audio \in SessionClips
    /\ IsReport(result)
    /\ Len(interpretation) = 3

\* analyze_emotion has returned
EmotionReturned == pc \in {"em_returned", "em_bound"}

\* the classifier backend is unreachable or answers with a status other than 200
BackendAbsent == env.backend.kind \in {"down", "main"}

\* the first three results come from TextBlob's polarity of the input
TextBlobBased ==
    /\ ret[3] = Num(TbScore(env.input.polarity))
    /\ ret[1] = Str(TbLabel(ret[3].val)[1])
    /\ ret[1].str \in {"Positive", "Negative", "Neutral"}

IsErrorText(v) == v.tag = "str" /\ StartsWith(v.str, "Error: ")

\* the explanation or the email analysis a client gives: its stripped answer, or
\* the error text of its failed call
ClientGives(answer) ==
    IF env.client.raises THEN Str(ErrorText(env.client.error)) ELSE Str(Strip(answer))

Answers200 == env.backend.kind \in {"ml_model", "emotion_api"}

\* the service's answer carries a predicted emotion
HasPrediction ==
    \/ env.backend.kind = "emotion_api"
    \/ env.backend.kind = "ml_model" /\ env.backend.loaded /\ ~env.backend.fails

\* the emotion the service predicted for the input
ServicePrediction ==
    IF env.backend.kind = "ml_model" THEN Str(env.input.predicted)
    ELSE Str(env.backend.emotion)

\* C18: the backend's answer is used iff its status is 200, the fallback
\* otherwise, and whenever the service answers 200 with a prediction the
\* primary emotion returned is the emotion the service predicted.
C18_BackendPredictionReturned ==
    EmotionReturned =>
        /\ Answers200 => ret = BackendResult(PostPredict(env.backend, env.input).json)
        /\ ~Answers200 => ret = FallbackResult(env)
        /\ (Answers200 /\ HasPrediction) => ret[6] = ServicePrediction

\* the emoji the program uses
EmojiValues ==
    {EMOJI_MAP(k) : k \in EmojiKeySet} \cup {SlightSmile, Worried, NeutralFace}

\* the labels the program uses: emotions and TextBlob's three labels
EmotionLabels ==
    EmojiKeySet \cup {"Positive", "Negative", "Neutral"}
        \cup {b.emotion : b \in {x \in Backends : x.kind = "emotion_api"}}

IsEmoji(v) == v.tag = "str" /\ v.str \in EmojiValues
IsLabel(v) == v.tag = "str" /\ v.str \in EmotionLabels

\* C19: whichever path produced the tuple, empathy_page binds an emotion label
\* to primary_emotion, an emoji to emoji and a label to tb_label.
C19_BindingsWellTyped ==
    pc = "em_bound" =>
        /\ IsLabel(bound.primary_emotion)
        /\ IsEmoji(bound.emoji)
        /\ IsLabel(bound.tb_label)

\* the utterances a sequence of calls emits when a call emits iff its text is
\* non-empty and differs, stripped, from the previously emitted one (from the
\* empty text while nothing has been emitted)
RECURSIVE EmittedOf(_, _)
EmittedOf(out, rest) ==
    IF rest = <<>> THEN out
    ELSE LET t == Head(rest)
             prev == IF out = <<>> THEN "" ELSE out[Len(out)]
         IN  EmittedOf(IF t # "" /\ Strip(t) # Strip(prev) THEN Append(out, t) ELSE out,
                       Tail(rest))

\* C20: no emitted utterance repeats, stripped, the one emitted before it;
\* every non-empty text that differs from the previously emitted one is
\* emitted; last_spoken is the most recently emitted utterance, also after a
\* suppressed or empty call and after logout.
C20_SpeakNeverRepeats ==
    /\ \A i \in 2..Len(spoken) : Strip(spoken[i]) # Strip(spoken[i - 1])
    /\ spoken = EmittedOf(<<>>, said)
    /\ last_spoken = IF spoken = <<>> THEN "" ELSE spoken[Len(spoken)]

\* logged out after a suppressed repetition and an emitted utterance
C20_Witness ==
    /\ ~logged_in
    /\ Len(said) = 3
    /\ Len(spoken) = 2
    /\ said[2] = said[3]
    /\ last_spoken = spoken[2]

\* logged_in turns true only in a step of the login handler that received a
\* 200 answer of /login
LoginOnlyAfter200 ==
    (~logged_in /\ logged_in') =>
        /\ view = "login"
        /\ resp' = Answer("/login", Ok)

\* a step that ends the login clears the session and shows the login page
LogoutResets ==
    (logged_in /\ ~logged_in') =>
        /\ page' = "login"
        /\ username' = None
        /\ token' = None
        /\ view' = "login"

\* a signup or a refused or failed login leaves logged_in alone
OthersKeepLogin ==
    (resp' # resp /\ resp' # Answer("/login", Ok)) => logged_in' = logged_in

\* C21: the empathy page is rendered only while logged_in is true; logged_in
\* becomes true only in the login handler after a 200 answer of /login (not
\* after a failed login, a backend error or a signup); logout sets logged_in
\* to False, page to 'login', username and token to None, and the next render
\* shows the login page.
C21_EmpathyPageNeedsLogin ==
    /\ [](view = "empathy" => logged_in)
    /\ [][LoginOnlyAfter200 /\ LogoutResets /\ OthersKeepLogin]_vars

\* logged out again after a login: the login page, username and token None
C21_Witness ==
    /\ ~logged_in
    /\ view = "login"
    /\ page = "login"
    /\ username = None
    /\ token = None
    /\ resp = Answer("/login", Ok)

\* C22: no two stored users share a username, and every signup request for a
\* username that is registered when the request is answered -- also one
\* registered between the request's lookup and its insert -- gets 400
\* 'Username already registered' and stores nothing.
C22_DuplicateSignupRefused ==
    /\ \A i, j \in DOMAIN users : users[i].username = users[j].username => i = j
    /\ \A r \in DOMAIN reqs :
           (reqs[r].pc = "done" /\ reqs[r].taken) =>
               /\ reqs[r].answer = AlreadyRegistered
               /\ ~reqs[r].inserted

\* the field a request ends up with under the claim: the one sent, else the
\* one parsed from a non-empty 'analysis', else none
ClaimedField(sent, analysis, match, value) ==
    IF sent # None THEN sent
    ELSE IF analysis # None /\ analysis.str # "" /\ match.found THEN value
    ELSE None

ClaimedFields(p) ==
    [tone |-> ClaimedField(p.tone, p.analysis, ToneMatch(p.analysis.str),
                           Str(Strip(ToneMatch(p.analysis.str).group))),
     politeness |-> ClaimedField(p.politeness, p.analysis, PolMatch(p.analysis.str),
                                 Num(IntOf(PolMatch(p.analysis.str).group))),
     intent |-> ClaimedField(p.intent, p.analysis, IntentMatch(p.analysis.str),
                             Str(Strip(IntentMatch(p.analysis.str).group)))]

Registered(name) == \E i \in DOMAIN users : users[i].username = name

EmailRequests == {i \in DOMAIN log : log[i].endpoint = "/submit_email_analysis"}

\* C23: a request stores exactly one record iff the user exists and each of
\* tone, politeness and intent is sent or parsable from 'analysis', the sent
\* field winning over the parsed one; otherwise the answer is 404 (unknown
\* user) or 400 (a field missing) and nothing is stored.
C23_EmailStoredIffComplete ==
    \A i \in EmailRequests :
        LET e == log[i]
            f == ClaimedFields(e.payload)
            complete == f.tone # None /\ f.politeness # None /\ f.intent # None
        IN  IF Registered(e.payload.username) /\ complete
            THEN /\ e.answer.status = Ok
                 /\ e.after = e.before + 1
                 /\ emails[e.after].tone = f.tone
                 /\ emails[e.after].politeness = f.politeness
                 /\ emails[e.after].intent = f.intent
                 /\ emails[e.after].email_text = e.payload.email_text
            ELSE /\ e.after = e.before
                 /\ e.answer.status =
                        IF Registered(e.payload.username) THEN BadRequest ELSE NotFound

\* a sent tone wins over the parsed one, politeness and intent are parsed
C23_Witness ==
    /\ Len(log) = 1
    /\ log[1].payload.tone = Str("Formal")
    /\ log[1].payload.politeness = None
    /\ log[1].payload.analysis = Str(LlmAnalysis)
    /\ Len(emails) = 1
    /\ emails[1].tone = Str("Formal")
    /\ emails[1].politeness = Num(80)
    /\ emails[1].intent = Str("request")

Reverse(seq) == [i \in DOMAIN seq |-> seq[Len(seq) + 1 - i]]

\* the scores submitted with a username in the first n requests, oldest first
SubmittedBy(name, n) ==
    SelectSeq(SubSeq(log, 1, n),
              LAMBDA e : e.endpoint = "/submit_score" /\ e.payload.username = name)

\* text and score of the entries of an answered list
TextAndScore(body) == [i \in DOMAIN body |-> <<body[i].text, body[i].score>>]

\* C24: get_user_scores(u) answers with exactly the scores submitted with
\* username u, newest first; for a username that is not registered both
\* endpoints answer 404 and submit_score stores nothing.
C24_OwnScoresNewestFirst ==
    \A i \in DOMAIN log :
        LET e == log[i]
        IN  /\ e.endpoint = "/user_scores" =>
                   IF Registered(e.payload)
                   THEN /\ e.answer.status = Ok
                        /\ TextAndScore(e.answer.body) =
                               Reverse([k \in DOMAIN SubmittedBy(e.payload, i - 1) |->
                                           <<SubmittedBy(e.payload, i - 1)[k].payload.text,
                                             SubmittedBy(e.payload, i - 1)[k].payload.score>>])
                        /\ \A k \in 2..Len(e.answer.body) :
                               e.answer.body[k].timestamp < e.answer.body[k - 1].timestamp
                   ELSE e.answer = UserNotFound
            /\ e.endpoint = "/submit_score" =>
                   IF Registered(e.payload.username)
                   THEN e.answer.status = Ok /\ e.after = e.before + 1
                   ELSE e.answer = UserNotFound /\ e.after = e.before

\* asha reads her one score, the newer of two stored; the other is ravi's
C24_Witness ==
    /\ Len(log) = 3
    /\ log[1].endpoint = "/submit_score" /\ log[1].payload.username = "asha"
    /\ log[2].endpoint = "/submit_score" /\ log[2].payload.username = "ravi"
    /\ log[3].endpoint = "/user_scores" /\ log[3].payload = "asha"
    /\ Len(reply.body) = 1
    /\ reply.body[1].score = log[1].payload.score

====
